---- MODULE Spec2Model ----
\* Model of pco's ChunkSpec (pco/src/chunk_spec.rs) and Mode (pco/src/mode.rs).
\*
\* Two state machines share this module:
\*   Spec      a ChunkSpec value driven through with_page_sizes / page_sizes,
\*             with the caller holding (and possibly changing) the last
\*             returned vector;
\*   SpecMode  a Mode value built through its variants and helpers and queried
\*             through n_latent_vars / delta_order_for_latent_var.
EXTENDS Integers, Sequences, FiniteSets, TLC

\* ---------------------------------------------------------------- bounds
\* usize is modelled at a reduced width; arithmetic on it is modulo 2^UsizeBits.
UsizeBits == 3
\* longest page-size vector handed to with_page_sizes
MaxLen == 3
\* page sizes are drawn from 0..MaxSize and the half-range value
MaxSize == 1
\* chunk lengths are drawn from 0..MaxN and the values around the half range
MaxN == 3
\* the latent type L is modelled at a reduced width
LatentBits == 3
\* largest bit count handed to float_decomp
MaxK == 4
\* largest requested delta order
MaxDeltaOrder == 2
\* largest latent index asked for
MaxLatentIdx == 3

UsizeModulus == 2 ^ UsizeBits
HalfRange == 2 ^ (UsizeBits - 1)
SizeVals == (0 .. MaxSize) \cup {HalfRange}
NVals == (0 .. MaxN) \cup {HalfRange, HalfRange + 1}
SizeSeqs == UNION {[1 .. l -> SizeVals] : l \in 0 .. MaxLen}

LatentModulus == 2 ^ LatentBits
LatentVals == 0 .. (LatentModulus - 1)

VARIABLES
  overflow_checks, \* whether the build traps on integer overflow (debug) or wraps (release)
  paging_spec,     \* ChunkSpec.paging_spec: the tag, and the address of its Vec
  heap,            \* contents of the two Vec buffers: the spec's and the caller's
  ret,             \* the caller's last result of page_sizes
  last_n,          \* the n of the last page_sizes call
  last_op,         \* the last operation on the ChunkSpec
  prev_op,         \* the operation before it
  hist_paging,     \* history: the argument of the most recent with_page_sizes
  mode,            \* a Mode<L> value
  mode_call        \* the last call on the Mode, with its arguments and outcome

chunk_vars == <<overflow_checks, paging_spec, heap, ret, last_n, last_op, prev_op, hist_paging>>
mode_vars == <<mode, mode_call>>
vars == <<overflow_checks, paging_spec, heap, ret, last_n, last_op, prev_op, hist_paging, mode, mode_call>>

\* ---------------------------------------------------------------- ChunkSpec

\* The Vec owned by the spec and the Vec owned by the caller of page_sizes.
SpecAddr == "spec_vec"
RetAddr == "ret_vec"
Addrs == {SpecAddr, RetAddr}

SinglePage == [tag |-> "SinglePage"]
ExactPageSizes(addr) == [tag |-> "ExactPageSizes", sizes |-> addr]

Ok(addr) == [kind |-> "Ok", vec |-> addr]
InvalidArgument(message) == [kind |-> "Err", err |-> "InvalidArgument", msg |-> message]
OverflowPanic == [kind |-> "Panic", msg |-> "attempt to add with overflow"]
NoResult == [kind |-> "None"]

SumMismatchMsg(sizes_n, n) == <<"chunk spec suggests ", sizes_n, " numbers but ", n, " were given">>
ZeroPageMsg == <<"cannot write data page of 0 numbers">>

RECURSIVE SumFrom(_, _, _)
\* usize accumulation: the running value wraps at the width of usize, and the
\* flag records whether any addition left the range.
SumFrom(acc, ovf, s) ==
  IF s = <<>>
  THEN [val |-> acc, overflowed |-> ovf]
  ELSE SumFrom((acc + Head(s)) % UsizeModulus,
               ovf \/ (acc + Head(s) >= UsizeModulus),
               Tail(s))

\* sizes.iter().sum()
IterSum(s) == SumFrom(0, FALSE, s)

\* vec![n]: a new Vec in the caller's buffer
VecOfN(h, n) == [addr |-> RetAddr, heap |-> [h EXCEPT ![RetAddr] = <<n>>]]

\* a variant of clone that hands out the spec's own buffer
CloneAliased(h, src) == [addr |-> src, heap |-> h]

\* a variant of clone that loses the last element
CloneTruncated(h, src) ==
  [addr |-> RetAddr,
   heap |-> [h EXCEPT ![RetAddr] = SubSeq(h[src], 1, Len(h[src]) - 1)]]

\* sizes.clone(): a new Vec with the same elements in the caller's buffer
Clone(h, src) == [addr |-> RetAddr, heap |-> [h EXCEPT ![RetAddr] = h[src]]]

\* the local Vec going out of scope on an early return
DropRet(h) == [h EXCEPT ![RetAddr] = <<>>]

\* a variant of the zero scan that looks at the first page only
HasZeroPageFirstOnly(v) == Len(v) >= 1 /\ v[1] = 0

\* a variant of the zero scan that never finds a zero
HasZeroPageNever(v) == FALSE

\* for &size in &page_sizes { if size == 0 { return Err } }
HasZeroPage(v) == \E i \in DOMAIN v : v[i] = 0

\* the tail of page_sizes: the zero scan and the final Ok(page_sizes)
ZeroScan(a) ==
  IF HasZeroPage(a.heap[a.addr])
  THEN [ret |-> InvalidArgument(ZeroPageMsg), heap |-> DropRet(a.heap)]
  ELSE [ret |-> Ok(a.addr), heap |-> a.heap]

\* ChunkSpec::page_sizes(&self, n)
page_sizes(h, ps, n, checks) ==
  IF ps.tag = "SinglePage"
  THEN ZeroScan(VecOfN(h, n))
  ELSE LET sizes_n == IterSum(h[ps.sizes])
       IN  IF sizes_n.overflowed /\ checks
           THEN [ret |-> OverflowPanic, heap |-> DropRet(h)]
           ELSE IF sizes_n.val = n
                THEN ZeroScan(Clone(h, ps.sizes))
                ELSE [ret |-> InvalidArgument(SumMismatchMsg(sizes_n.val, n)),
                      heap |-> DropRet(h)]

\* ChunkSpec::default(), in a build with or without overflow checks
InitChunk ==
  /\ overflow_checks \in BOOLEAN
  /\ paging_spec = SinglePage
  /\ heap = [a \in Addrs |-> <<>>]
  /\ ret = NoResult
  /\ last_n = 0
  /\ last_op = "default"
  /\ prev_op = "default"
  /\ hist_paging = [tag |-> "SinglePage"]

\* spec = spec.with_page_sizes(sizes): the spec is consumed and rebuilt around
\* the given vector. The caller holds one result at a time: the result it got
\* from the consumed spec goes out of scope here.
WithPageSizes ==
  \E sizes \in SizeSeqs :
    /\ paging_spec' = ExactPageSizes(SpecAddr)
    /\ heap' = [DropRet(heap) EXCEPT ![SpecAddr] = sizes]
    /\ hist_paging' = [tag |-> "ExactPageSizes", sizes |-> sizes]
    /\ ret' = NoResult
    /\ last_n' = 0
    /\ prev_op' = last_op
    /\ last_op' = "with_page_sizes"
    /\ UNCHANGED <<overflow_checks, mode_vars>>

\* ret = spec.page_sizes(n)
PageSizes ==
  \E n \in NVals :
    LET r == page_sizes(heap, paging_spec, n, overflow_checks)
    IN  /\ ret' = r.ret
        /\ heap' = r.heap
        /\ last_n' = n
        /\ prev_op' = last_op
        /\ last_op' = "page_sizes"
        /\ UNCHANGED <<overflow_checks, paging_spec, hist_paging, mode_vars>>

\* the caller writes into the vector it was returned: ret[i] = v
MutateReturned ==
  /\ ret.kind = "Ok"
  /\ last_op = "page_sizes"
  /\ \E i \in DOMAIN heap[ret.vec] : \E v \in SizeVals :
       /\ v # heap[ret.vec][i]
       /\ heap' = [heap EXCEPT ![ret.vec][i] = v]
  /\ prev_op' = last_op
  /\ last_op' = "mutate"
  /\ UNCHANGED <<overflow_checks, paging_spec, ret, last_n, hist_paging, mode_vars>>

\* ---------------------------------------------------------------- Mode

Classic == [tag |-> "Classic"]
IntMult(base) == [tag |-> "IntMult", param |-> base]
FloatMult(base) == [tag |-> "FloatMult", param |-> base]
FloatDecomp(k) == [tag |-> "FloatDecomp", param |-> k]

\* the number of mantissa bits of the float type F
MantissaBits == 3

\* L::from_u64: the value as a latent-sized unsigned
from_u64(x) == x % LatentModulus

\* FloatLike::to_latent_ordered: flip the sign bit, or all bits if negative
to_latent_ordered(bits) ==
  IF bits >= LatentModulus \div 2
  THEN LatentModulus - 1 - bits
  ELSE bits + LatentModulus \div 2

\* a variant where FloatDecomp counts one latent variable
n_latent_vars_decomp1(m) ==
  IF m.tag = "Classic" \/ m.tag = "FloatDecomp" THEN 1 ELSE 2

\* Mode::n_latent_vars
n_latent_vars(m) ==
  CASE m.tag = "Classic" -> 1
    [] m.tag \in {"FloatMult", "IntMult"} -> 2
    [] m.tag = "FloatDecomp" -> 2

Val(v) == [kind |-> "Val", val |-> v]
Unreachable == [kind |-> "Panic", msg |-> "unreachable"]

\* a variant that delta-encodes the second latent too
delta_order_all(m, latent_var_idx, delta_order) ==
  IF latent_var_idx = 0 \/ (m.tag # "Classic" /\ latent_var_idx = 1)
  THEN Val(delta_order)
  ELSE Unreachable

\* a variant whose fallback arm returns 0
delta_order_default0(m, latent_var_idx, delta_order) ==
  IF latent_var_idx = 0 THEN Val(delta_order) ELSE Val(0)

\* Mode::delta_order_for_latent_var
delta_order_for_latent_var(m, latent_var_idx, delta_order) ==
  CASE latent_var_idx = 0 /\ m.tag \in {"Classic", "FloatMult", "FloatDecomp", "IntMult"} ->
         Val(delta_order)
    [] latent_var_idx = 1 /\ m.tag \in {"FloatMult", "IntMult"} -> Val(0)
    [] latent_var_idx = 1 /\ m.tag = "FloatDecomp" -> Val(0)
    [] OTHER -> Unreachable

\* a variant that stores k - 1
float_decomp_off(k) == FloatDecomp(from_u64(IF k > 0 THEN k - 1 ELSE 0))

\* Mode::float_mult(base)
float_mult(base) == FloatMult(to_latent_ordered(base))

\* Mode::float_decomp(k)
float_decomp(k) == FloatDecomp(from_u64(k))

NoCall == [op |-> "none"]

\* Mode::default()
InitMode ==
  /\ mode = Classic
  /\ mode_call = NoCall

\* mode = Mode::Classic
NewClassic ==
  /\ mode' = Classic
  /\ mode_call' = [op |-> "Classic"]
  /\ UNCHANGED chunk_vars

\* mode = Mode::IntMult(base)
NewIntMult ==
  \E base \in LatentVals :
    /\ mode' = IntMult(base)
    /\ mode_call' = [op |-> "IntMult", arg |-> base]
    /\ UNCHANGED chunk_vars

\* mode = Mode::float_mult(base)
NewFloatMult ==
  \E base \in LatentVals :
    /\ mode' = float_mult(base)
    /\ mode_call' = [op |-> "float_mult", arg |-> base]
    /\ UNCHANGED chunk_vars

\* mode = Mode::float_decomp(k)
NewFloatDecomp ==
  \E k \in 0 .. MaxK :
    /\ mode' = float_decomp(k)
    /\ mode_call' = [op |-> "float_decomp", arg |-> k]
    /\ UNCHANGED chunk_vars

\* mode.n_latent_vars()
CallNLatentVars ==
  /\ mode_call' = [op |-> "n_latent_vars", ret |-> n_latent_vars(mode)]
  /\ UNCHANGED <<mode, chunk_vars>>

\* mode.delta_order_for_latent_var(latent_var_idx, delta_order)
CallDeltaOrder ==
  \E latent_var_idx \in 0 .. MaxLatentIdx : \E delta_order \in 0 .. MaxDeltaOrder :
    /\ mode_call' = [op |-> "delta_order_for_latent_var",
                     latent_var_idx |-> latent_var_idx,
                     delta_order |-> delta_order,
                     ret |-> delta_order_for_latent_var(mode, latent_var_idx, delta_order)]
    /\ UNCHANGED <<mode, chunk_vars>>

\* ---------------------------------------------------------------- specifications

Init == InitChunk /\ InitMode

Next == WithPageSizes \/ PageSizes \/ MutateReturned

Spec == Init /\ [][Next]_vars

NextMode ==
  \/ NewClassic
  \/ NewIntMult
  \/ NewFloatMult
  \/ NewFloatDecomp
  \/ CallNLatentVars
  \/ CallDeltaOrder

SpecMode == Init /\ [][NextMode]_vars

\* ---------------------------------------------------------------- properties

RECURSIVE SumExact(_)
\* the sum of a sequence over the unbounded integers
SumExact(s) == IF s = <<>> THEN 0 ELSE Head(s) + SumExact(Tail(s))

\* the paging of the spec, by value
PagingValue ==
  IF paging_spec.tag = "SinglePage"
  THEN [tag |-> "SinglePage"]
  ELSE [tag |-> "ExactPageSizes", sizes |-> heap[paging_spec.sizes]]

\* a result of page_sizes, by value
RetView(r, h) == IF r.kind = "Ok" THEN [kind |-> "Ok", vec |-> h[r.vec]] ELSE r

\* page_sizes has just returned
JustResolved == last_op = "page_sizes"

\* page_sizes has just returned on a spec built with with_page_sizes(S)
JustResolvedExact == JustResolved /\ hist_paging.tag = "ExactPageSizes"

\* what page_sizes(last_n) gives on a spec freshly built from the most recent
\* with_page_sizes argument alone
ResultFromHistory ==
  LET h0 == [a \in Addrs |->
               IF a = SpecAddr /\ hist_paging.tag = "ExactPageSizes"
               THEN hist_paging.sizes ELSE <<>>]
      ps0 == IF hist_paging.tag = "SinglePage" THEN SinglePage ELSE ExactPageSizes(SpecAddr)
      r == page_sizes(h0, ps0, last_n, overflow_checks)
  IN  RetView(r.ret, r.heap)

\* C1: whenever page_sizes(n) returns Ok(P), the exact integer sum of P is n
\* and every element of P is at least 1.
C1_ResolvedSumsToN ==
  (JustResolved /\ ret.kind = "Ok") =>
    /\ SumExact(heap[ret.vec]) = last_n
    /\ \A i \in DOMAIN heap[ret.vec] : heap[ret.vec][i] >= 1

\* C2: for a non-empty S of positive integers with sum(S) = n,
\* with_page_sizes(S).page_sizes(n) returns Ok(S), unchanged.
C2_ExactSizesReturned ==
  (/\ JustResolvedExact
   /\ hist_paging.sizes # <<>>
   /\ \A i \in DOMAIN hist_paging.sizes : hist_paging.sizes[i] >= 1
   /\ SumExact(hist_paging.sizes) = last_n)
  => (ret.kind = "Ok" /\ heap[ret.vec] = hist_paging.sizes)

C2_Witness ==
  /\ JustResolvedExact
  /\ Len(hist_paging.sizes) = 3
  /\ \A i \in DOMAIN hist_paging.sizes : hist_paging.sizes[i] >= 1
  /\ SumExact(hist_paging.sizes) = last_n
  /\ ret.kind = "Ok"

\* C3: for every S and n with sum(S) # n, with_page_sizes(S).page_sizes(n)
\* fails with the sum-mismatch message naming sum(S) and n, never otherwise.
C3_MismatchReported ==
  (JustResolvedExact /\ SumExact(hist_paging.sizes) # last_n) =>
    ret = InvalidArgument(SumMismatchMsg(SumExact(hist_paging.sizes), last_n))

\* C4: for every S holding a zero with sum(S) = n, page_sizes(n) fails with
\* the zero-page message, wherever the zero sits.
C4_ZeroPageRejected ==
  (/\ JustResolvedExact
   /\ \E i \in DOMAIN hist_paging.sizes : hist_paging.sizes[i] = 0
   /\ SumExact(hist_paging.sizes) = last_n)
  => ret = InvalidArgument(ZeroPageMsg)

C4_Witness ==
  /\ JustResolvedExact
  /\ Len(hist_paging.sizes) = 3
  /\ hist_paging.sizes[1] # 0
  /\ hist_paging.sizes[2] = 0
  /\ hist_paging.sizes[3] # 0
  /\ SumExact(hist_paging.sizes) = last_n
  /\ ret = InvalidArgument(ZeroPageMsg)

\* C5: on the default spec page_sizes(n) is Ok([n]) for n >= 1 and the
\* zero-page error for n = 0.
C5_SinglePage ==
  (JustResolved /\ hist_paging.tag = "SinglePage") =>
    IF last_n >= 1
    THEN ret.kind = "Ok" /\ heap[ret.vec] = <<last_n>>
    ELSE ret = InvalidArgument(ZeroPageMsg)

C5_Witness ==
  /\ JustResolved
  /\ hist_paging.tag = "SinglePage"
  /\ last_n = 0
  /\ ret = InvalidArgument(ZeroPageMsg)

\* C6: n_latent_vars is 1 or 2, and 2 exactly for IntMult, FloatMult and
\* FloatDecomp, whatever the parameter.
C6_LatentCount ==
  (mode_call.op = "n_latent_vars") =>
    /\ mode_call.ret \in {1, 2}
    /\ (mode_call.ret = 2 <=> mode.tag \in {"IntMult", "FloatMult", "FloatDecomp"})

C6_Witness ==
  /\ mode_call.op = "n_latent_vars"
  /\ mode.tag = "FloatDecomp"
  /\ mode_call.ret = 2

\* the number of latent variables of a mode, by its tag
LatentCountOf(m) == IF m.tag = "Classic" THEN 1 ELSE 2

\* C7: for a valid latent index i, delta_order_for_latent_var(M, i, d) is d
\* when i = 0 and 0 when i = 1.
C7_DeltaOrderPolicy ==
  (/\ mode_call.op = "delta_order_for_latent_var"
   /\ mode_call.latent_var_idx < LatentCountOf(mode))
  => mode_call.ret = Val(IF mode_call.latent_var_idx = 0 THEN mode_call.delta_order ELSE 0)

C7_Witness ==
  /\ mode_call.op = "delta_order_for_latent_var"
  /\ mode.tag = "IntMult"
  /\ mode_call.latent_var_idx = 1
  /\ mode_call.delta_order = 2
  /\ mode_call.ret = Val(0)

\* C8: delta_order_for_latent_var returns a value exactly when the index is
\* below the latent count, and otherwise aborts as unreachable.
C8_InvalidIndexAborts ==
  (mode_call.op = "delta_order_for_latent_var") =>
    IF mode_call.latent_var_idx < LatentCountOf(mode)
    THEN mode_call.ret.kind = "Val"
    ELSE mode_call.ret = Unreachable

C8_Witness ==
  /\ mode_call.op = "delta_order_for_latent_var"
  /\ mode.tag = "Classic"
  /\ mode_call.latent_var_idx = 1
  /\ mode_call.ret = Unreachable

\* the parameter invariants of a Mode value
ModeParamsValid(m) ==
  /\ m.tag = "IntMult" => m.param >= 2
  /\ m.tag = "FloatDecomp" => (1 <= m.param /\ m.param <= MantissaBits - 1)

\* C9 (as stated): every Mode built through the variants or float_decomp
\* satisfies the parameter invariants.
C9_AllModesValid == ModeParamsValid(mode)

\* C9 (amended): float_decomp(k) with 1 <= k <= mantissa_bits - 1 is
\* FloatDecomp(k), and IntMult(base) with base >= 2 keeps its base; these
\* satisfy the parameter invariants.
C9_ValidArgsGiveValidModes ==
  /\ (/\ mode_call.op = "float_decomp"
      /\ 1 <= mode_call.arg
      /\ mode_call.arg <= MantissaBits - 1)
     => (mode = FloatDecomp(mode_call.arg) /\ ModeParamsValid(mode))
  /\ (mode_call.op = "IntMult" /\ mode_call.arg >= 2)
     => (mode = IntMult(mode_call.arg) /\ ModeParamsValid(mode))

C9_Witness ==
  /\ mode_call.op = "float_decomp"
  /\ mode_call.arg = MantissaBits - 1
  /\ mode = FloatDecomp(MantissaBits - 1)

\* C10: the spec's paging is always the most recent with_page_sizes argument
\* (SinglePage if none), and a result of page_sizes(n) is the one that
\* argument and n alone give, also after a returned vector was changed.
C10_ResultFromLastArgOnly ==
  /\ PagingValue = hist_paging
  /\ JustResolved => RetView(ret, heap) = ResultFromHistory

C10_Witness ==
  /\ JustResolvedExact
  /\ prev_op = "mutate"
  /\ ret.kind = "Ok"
  /\ Len(heap[ret.vec]) >= 2

====
